---- MODULE Spec2Model ----
(***************************************************************************)
(* The user aggregate of flarexio/identity, its domain events, the         *)
(* SQLite (gorm) user repository and the projection handlers that apply    *)
(* the events to the repository.                                           *)
(*                                                                         *)
(* Thirteen specifications share the variables:                            *)
(*   SpecAgg   the aggregate API called on one freshly constructed user    *)
(*   Spec      the repository, the projection handlers (one atomic action  *)
(*             per handler application) and the use-cases that read it     *)
(*   SpecConc  two workers applying projection handlers whose load (Find)  *)
(*             and write (Store) are separate database calls               *)
(*   SpecUse   the Register and SignIn use-cases publishing to the users   *)
(*             stream and the consumer applying its messages               *)
(*   SpecRemoved the added and removed social account events applied to    *)
(*             the repository                                              *)
(*   SpecCase  one use-case called on a repository, and the messages it    *)
(*             published consumed by the projection handlers               *)
(*   SpecRoute messages of the five event types routed to their handlers   *)
(*   SpecTopic one message on a well-formed or malformed topic handed to   *)
(*             the message handler                                         *)
(*   SpecFault the projection handlers when a database statement can fail  *)
(*   SpecRepo  one aggregate instance loaded from the repository, changed  *)
(*             through its API and written back with Store and Delete      *)
(*   SpecLoad  one new user changed through its API, stored and loaded     *)
(*   SpecDelete the DeleteUser use-case, the consumer of its message and   *)
(*             redelivery of earlier messages                              *)
(*   SpecLine  the LINE login handler and two concurrent callbacks over    *)
(*             the cache of OAuth states                                   *)
(***************************************************************************)
EXTENDS Integers, Sequences, FiniteSets, TLC

(***************************************************************************)
(* Bounds                                                                  *)
(***************************************************************************)
\* number of user IDs that can be minted
MaxUsers == 2
\* number of distinct provider subjects (SocialID values)
MaxSocialIDs == 2
\* number of distinct usernames
MaxNames == 2
\* number of aggregate method calls recorded on one instance
MaxCalls == 4
\* number of projection-handler applications recorded from the initial repository
MaxApplied == 3
\* number of distinct random suffixes a sign-in can append to a taken username
MaxSuffix == 1
\* number of messages of any of the five event types routed from the initial
\* repository
MaxRouted == 2
\* number of OAuth state values the LINE login handler can issue
MaxStates == 2

UserIDs == 1..MaxUsers
SocialIDs == 1..MaxSocialIDs
\* a username is the local part of an e-mail address, with suffix 0, or that
\* local part followed by "." and a random suffix
Username(local, suffix) == <<local, suffix>>
Usernames == {Username(n, 0) : n \in 1..MaxNames}
\* the username under which user id has registered
UsernameOf(id) == Username(((id - 1) % MaxNames) + 1, 0)

(***************************************************************************)
(* Time.  The zero time.Time, the instant of the aggregate calls (the      *)
(* time.Now() of a method and of the event it emits), before it the        *)
(* instant at which the rows already in the tables were saved and, later   *)
(* than all, the instants of the repository statements (Clock, below)      *)
(***************************************************************************)
ZeroTime == 0
StartTime == 1
CallTime == 2

(***************************************************************************)
(* user.Status and user.SocialProvider                                     *)
(***************************************************************************)
Pending == 0
Registered == 1
Activated == 2
Locked == 3
Revoked == 4

GOOGLE == "google"
LINE == "line"
PASSKEYS == "passkeys"
\* the providers the use-cases accept (FACEBOOK and PASSKEYS behave as LINE
\* does in the aggregate and the repository)
Providers == {GOOGLE, LINE}

\* the providers SignIn accepts
SignInProviders == Providers \cup {PASSKEYS}

NewSocialAccount(provider, id) == [Provider |-> provider, SocialID |-> id]

Pairs == {NewSocialAccount(p, s) : p \in Providers, s \in SocialIDs}

(***************************************************************************)
(* Errors                                                                  *)
(***************************************************************************)
Nil == "nil"
ErrUserNotFound == "user not found"
ErrAccountExists == "social account already exists"
ErrAccountNotFound == "social account not found"

(***************************************************************************)
(* Sequence helpers                                                        *)
(***************************************************************************)
Range(q) == {q[i] : i \in 1..Len(q)}

Last(q) == q[Len(q)]

NoDuplicates(q) == \A i, j \in 1..Len(q) : q[i] = q[j] => i = j

RECURSIVE Filter(_, _)
\* the elements of q that are in the set keep, in q's order
Filter(q, keep) ==
    IF q = <<>> THEN <<>>
    ELSE IF Head(q) \in keep THEN <<Head(q)>> \o Filter(Tail(q), keep)
    ELSE Filter(Tail(q), keep)

(***************************************************************************)
(* Domain events (user package) and the event store embedded in User       *)
(***************************************************************************)
UserRegistered == "user_registered"
UserActivated == "user_activated"
UserSocialAccountAdded == "user_social_account_added"
UserSocialAccountRemoved == "user_social_account_removed"
UserDeleted == "user_deleted"

EventNames ==
    {UserRegistered, UserActivated, UserSocialAccountAdded,
     UserSocialAccountRemoved, UserDeleted}

\* TopicSuffix as it would be if two event names shared a routing key
TopicSuffixShared(name) ==
    CASE name = UserRegistered -> "registered"
      [] name = UserActivated -> "activated"
      [] name = UserSocialAccountAdded -> "social_account_added"
      [] name = UserSocialAccountRemoved -> "social_account_added"
      [] name = UserDeleted -> "deleted"

\* the routing key of an event name: the name without its "user_" prefix
TopicSuffix(name) ==
    CASE name = UserRegistered -> "registered"
      [] name = UserActivated -> "activated"
      [] name = UserSocialAccountAdded -> "social_account_added"
      [] name = UserSocialAccountRemoved -> "social_account_removed"
      [] name = UserDeleted -> "deleted"

\* users.<UserID>.<suffix>, as its three dot-separated segments
Topic(e) == <<"users", e.UserID, TopicSuffix(e.name)>>

\* the event carries a copy of the user; the event store is not serialised
NewUserRegisteredEvent(u) ==
    [name |-> UserRegistered, UserID |-> u.ID, OccuredAt |-> CallTime,
     User |-> [u EXCEPT !.events = <<>>]]

NewUserActivatedEvent(u, status) ==
    [name |-> UserActivated, UserID |-> u.ID, OccuredAt |-> CallTime,
     Status |-> status]

NewUserSocialAccountAddedEvent(u, account) ==
    [name |-> UserSocialAccountAdded, UserID |-> u.ID, OccuredAt |-> CallTime,
     Account |-> account]

NewUserSocialAccountRemovedEvent(u, account) ==
    [name |-> UserSocialAccountRemoved, UserID |-> u.ID, OccuredAt |-> CallTime,
     Account |-> account]

NewUserDeletedEvent(u) ==
    [name |-> UserDeleted, UserID |-> u.ID, OccuredAt |-> CallTime]

AddEvent(u, e) == [u EXCEPT !.events = Append(@, e)]

\* the messages Notify hands to the publish sink, in emission order
NotifyMessages(u) ==
    [i \in 1..Len(u.events) |-> [topic |-> Topic(u.events[i]), event |-> u.events[i]]]

\* the aggregate after Notify: the pending events are drained
Notify(u) == [u EXCEPT !.events = <<>>]

(***************************************************************************)
(* The User aggregate.  A DeletedAt of ZeroTime: the user is not deleted.  *)
(***************************************************************************)
NoUser == [ID |-> 0]

NewUser(id, username) ==
    [ID |-> id, Username |-> username, Status |-> Pending, Accounts |-> <<>>,
     UpdatedAt |-> ZeroTime, DeletedAt |-> ZeroTime, events |-> <<>>]

\* Register as it would be if it replaced the pending events by its own
RegisterReplacingEvents(u) ==
    LET r == [u EXCEPT !.Status = Registered, !.UpdatedAt = CallTime]
    IN  [r EXCEPT !.events = <<NewUserRegisteredEvent(r)>>]

Register(u) ==
    LET r == [u EXCEPT !.Status = Registered, !.UpdatedAt = CallTime]
    IN  AddEvent(r, NewUserRegisteredEvent(r))

\* Activate as it would be without its AddEvent
ActivateWithoutEvent(u) == [u EXCEPT !.Status = Activated, !.UpdatedAt = CallTime]

Activate(u) ==
    LET r == [u EXCEPT !.Status = Activated, !.UpdatedAt = CallTime]
    IN  AddEvent(r, NewUserActivatedEvent(r, Activated))

\* Delete as it would be without its AddEvent
DeleteWithoutEvent(u) ==
    [u EXCEPT !.Status = Revoked, !.UpdatedAt = CallTime,
              !.DeletedAt = CallTime]

\* Delete as it would be if it dropped the accounts of the user
DeleteClearingAccounts(u) ==
    LET r == [u EXCEPT !.Status = Revoked, !.UpdatedAt = CallTime,
              !.DeletedAt = CallTime, !.Accounts = <<>>]
    IN  AddEvent(r, NewUserDeletedEvent(r))

Delete(u) ==
    LET r == [u EXCEPT !.Status = Revoked, !.UpdatedAt = CallTime,
              !.DeletedAt = CallTime]
    IN  AddEvent(r, NewUserDeletedEvent(r))

HasSocialAccount(u, provider, socialID) ==
    \E i \in 1..Len(u.Accounts) :
        u.Accounts[i].Provider = provider /\ u.Accounts[i].SocialID = socialID

\* AddSocialAccount as it would be without the HasSocialAccount check
AddSocialAccountUnchecked(u, provider, socialID) ==
    LET account == NewSocialAccount(provider, socialID)
        r == [u EXCEPT !.Accounts = Append(@, account), !.UpdatedAt = CallTime]
    IN  [user |-> AddEvent(r, NewUserSocialAccountAddedEvent(r, account)),
         err |-> Nil]

\* the result of a method that returns an error: the user left behind and err
AddSocialAccount(u, provider, socialID) ==
    IF HasSocialAccount(u, provider, socialID)
    THEN [user |-> u, err |-> ErrAccountExists]
    ELSE LET account == NewSocialAccount(provider, socialID)
             r == [u EXCEPT !.Accounts = Append(@, account), !.UpdatedAt = CallTime]
         IN  [user |-> AddEvent(r, NewUserSocialAccountAddedEvent(r, account)),
              err |-> Nil]

\* a removal that matches on the SocialID alone
RemoveSocialAccountOfAnyProvider(u, provider, socialID) ==
    LET match == {a \in Range(u.Accounts) : a.SocialID = socialID}
        accounts == Filter(u.Accounts, Range(u.Accounts) \ match)
        removed == Filter(u.Accounts, match)
        emitted == [u EXCEPT !.events =
                       @ \o [i \in 1..Len(removed) |->
                                NewUserSocialAccountRemovedEvent(u, removed[i])]]
    IN  IF Len(accounts) = Len(u.Accounts)
        THEN [user |-> emitted, err |-> ErrAccountNotFound]
        ELSE [user |-> [emitted EXCEPT !.Accounts = accounts, !.UpdatedAt = CallTime],
              err |-> Nil]

RemoveSocialAccount(u, provider, socialID) ==
    LET match == {NewSocialAccount(provider, socialID)}
        accounts == Filter(u.Accounts, Range(u.Accounts) \ match)
        removed == Filter(u.Accounts, match)
        \* the loop emits one event per match before the length test
        emitted == [u EXCEPT !.events =
                       @ \o [i \in 1..Len(removed) |->
                                NewUserSocialAccountRemovedEvent(u, removed[i])]]
    IN  IF Len(accounts) = Len(u.Accounts)
        THEN [user |-> emitted, err |-> ErrAccountNotFound]
        ELSE [user |-> [emitted EXCEPT !.Accounts = accounts, !.UpdatedAt = CallTime],
              err |-> Nil]

(***************************************************************************)
(* The SQLite repository (gorm).  A database is a record of its two tables *)
(*   users            user ID -> row, or NoRow                             *)
(*   social_accounts  user ID -> the account rows of that user, oldest     *)
(*                    first; the primary key is (UserID, SocialID)         *)
(* ID.String() and ParseID are inverse on every minted ID, so the tables   *)
(* are keyed by the ID itself.                                             *)
(***************************************************************************)
NoRow == [absent |-> TRUE]

\* the tables, and now: the instant at which a statement on them runs
EmptyDB ==
    [users |-> [id \in UserIDs |-> NoRow],
     social_accounts |-> [id \in UserIDs |-> <<>>],
     now |-> StartTime]

\* db.NewUser: the users row of a domain user
NewUserRow(u) ==
    [Username |-> u.Username, Status |-> u.Status, UpdatedAt |-> u.UpdatedAt,
     Deleted |-> u.DeletedAt # ZeroTime]

\* the account rows as they would be saved if social_accounts had no primary
\* key on (user_id, social_id)
KeepEveryRow(q, seen) == q

RECURSIVE FirstPerSocialID(_, _)
\* the accounts of q whose SocialID is not in seen and not earlier in q: gorm
\* saves one association row per primary key, the first one it meets
FirstPerSocialID(q, seen) ==
    IF q = <<>> THEN <<>>
    ELSE IF Head(q).SocialID \in seen THEN FirstPerSocialID(Tail(q), seen)
    ELSE <<Head(q)>> \o FirstPerSocialID(Tail(q), seen \cup {Head(q).SocialID})

\* gorm's Save of a model with an UpdatedAt field: every column is written
\* from the row, except updated_at, which gets the time of the statement
Save(row, now) == [row EXCEPT !.UpdatedAt = now]

\* Store as it would be without its first statement: the account rows of
\* the user that are already in the table stay
StoreKeepingAccountRows(d, u) ==
    [d EXCEPT !.users = [@ EXCEPT ![u.ID] = Save(NewUserRow(u), d.now)],
              !.social_accounts =
                  [@ EXCEPT ![u.ID] = FirstPerSocialID(@ \o u.Accounts, {})]]

\* one transaction: delete the user's account rows, then Save the user with
\* its accounts (an upsert of every column of the row, deleted_at included)
Store(d, u) ==
    [d EXCEPT !.users = [@ EXCEPT ![u.ID] = Save(NewUserRow(u), d.now)],
              !.social_accounts =
                  [@ EXCEPT ![u.ID] = FirstPerSocialID(u.Accounts, {})]]

\* delete the user's account rows, then soft-delete the users row: only
\* deleted_at of a row that is not yet deleted is written
RepositoryDelete(d, u) ==
    [d EXCEPT !.users =
                  [@ EXCEPT ![u.ID] =
                      IF @ = NoRow THEN @ ELSE [@ EXCEPT !.Deleted = TRUE]],
              !.social_accounts = [@ EXCEPT ![u.ID] = <<>>]]

\* the rows a query on users sees: soft-deleted rows are filtered out
Visible(d) == {id \in UserIDs : d.users[id] # NoRow /\ ~d.users[id].Deleted}

\* a reconstitute whose event store is not a new one
ReconstituteWithPending(d, id) ==
    [ID |-> id, Username |-> d.users[id].Username, Status |-> d.users[id].Status,
     Accounts |-> d.social_accounts[id], UpdatedAt |-> d.users[id].UpdatedAt,
     DeletedAt |-> ZeroTime, events |-> <<NewUserDeletedEvent([ID |-> id])>>]

\* db.User.reconstitute, with the preloaded accounts
Reconstitute(d, id) ==
    [ID |-> id, Username |-> d.users[id].Username, Status |-> d.users[id].Status,
     Accounts |-> d.social_accounts[id], UpdatedAt |-> d.users[id].UpdatedAt,
     DeletedAt |-> ZeroTime, events |-> <<>>]

\* ListAll: the visible rows, each reconstituted with its accounts; the
\* query has no ORDER BY, so any order of the rows is a possible result
Orderings(S) ==
    {o \in [1..Cardinality(S) -> S] : \A i, j \in DOMAIN o : o[i] = o[j] => i = j}

\* a ListAll that reads through soft deletion
ListAllUnscoped(d) ==
    {[i \in DOMAIN o |-> Reconstitute(d, o[i])] :
        o \in Orderings({id \in UserIDs : d.users[id] # NoRow})}

ListAll(d) ==
    {[i \in DOMAIN o |-> Reconstitute(d, o[i])] : o \in Orderings(Visible(d))}

NotFound == [user |-> NoUser, err |-> ErrUserNotFound]

Find(d, id) ==
    IF id \in Visible(d) THEN [user |-> Reconstitute(d, id), err |-> Nil]
    ELSE NotFound

\* Take returns any one matching row: the set of results a lookup can give
TakeAny(d, ids) ==
    IF ids = {} THEN {NotFound}
    ELSE {[user |-> Reconstitute(d, id), err |-> Nil] : id \in ids}

FindByUsername(d, username) ==
    TakeAny(d, {id \in Visible(d) : d.users[id].Username = username})

\* users joined with social_accounts on the user ID, by social_id alone
FindBySocialID(d, socialID) ==
    TakeAny(d, {id \in Visible(d) :
                   \E i \in 1..Len(d.social_accounts[id]) :
                       d.social_accounts[id][i].SocialID = socialID})

(***************************************************************************)
(* Projection handlers (service.go).  The result of a handler: the         *)
(* database it leaves, its error and the user it handed to Store or Delete *)
(***************************************************************************)
\* the in-memory mutation a handler makes on the user it loaded
Mutate(u, e) ==
    CASE e.name = UserActivated ->
            [u EXCEPT !.Status = e.Status, !.UpdatedAt = e.OccuredAt]
      [] e.name = UserSocialAccountAdded ->
            [u EXCEPT !.Accounts = Append(@, e.Account), !.UpdatedAt = e.OccuredAt]
      [] e.name = UserDeleted ->
            [u EXCEPT !.Status = Revoked, !.UpdatedAt = e.OccuredAt,
                      !.DeletedAt = e.OccuredAt]

\* the repository call that ends a handler
Persist(d, u, e) ==
    IF e.name = UserDeleted THEN RepositoryDelete(d, u) ELSE Store(d, u)

LoadMutatePersist(d, e) ==
    LET f == Find(d, e.UserID)
    IN  IF f.err # Nil THEN [db |-> d, err |-> f.err, arg |-> NoUser]
        ELSE LET u == Mutate(f.user, e)
             IN  [db |-> Persist(d, u, e), err |-> Nil, arg |-> u]

\* the result r of a handler, with the name of the handler that ran
By(handler, r) == r @@ [handler |-> handler]

UserRegisteredHandler(d, e) ==
    By("UserRegisteredHandler",
       [db |-> Store(d, e.User), err |-> Nil, arg |-> e.User])

UserActivatedHandler(d, e) ==
    By("UserActivatedHandler", LoadMutatePersist(d, e))

UserSocialAccountAddedHandler(d, e) ==
    By("UserSocialAccountAddedHandler", LoadMutatePersist(d, e))

UserDeletedHandler(d, e) == By("UserDeletedHandler", LoadMutatePersist(d, e))

\* the handler EventEndpoint calls for a UserSocialAccountRemovedEvent: it
\* loads the user, removes the account matching the event's (Provider,
\* SocialID) and stores the user; an account already absent is no error
UserSocialAccountRemovedHandler(d, e) ==
    LET f == Find(d, e.UserID)
    IN  By("UserSocialAccountRemovedHandler",
           IF f.err # Nil THEN [db |-> d, err |-> f.err, arg |-> NoUser]
           ELSE LET u == [f.user EXCEPT
                             !.Accounts = Filter(@, Range(@) \ {e.Account}),
                             !.UpdatedAt = e.OccuredAt]
                IN  [db |-> Store(d, u), err |-> Nil, arg |-> u])

\* EventEndpoint: the handler of the event's type
EventEndpoint(d, e) ==
    CASE e.name = UserRegistered -> UserRegisteredHandler(d, e)
      [] e.name = UserActivated -> UserActivatedHandler(d, e)
      [] e.name = UserSocialAccountAdded -> UserSocialAccountAddedHandler(d, e)
      [] e.name = UserSocialAccountRemoved ->
            UserSocialAccountRemovedHandler(d, e)
      [] e.name = UserDeleted -> UserDeletedHandler(d, e)

ErrDatabase == "database error"

\* the statements of a repository write: Store deletes the account rows (1)
\* and saves the user (2); Delete deletes the account rows (1) and
\* soft-deletes the users row (2)
Statements == {1, 2}

\* Store when its statement k fails: the transaction is rolled back
StoreFailing(d, u, k) == d

\* Delete when its statement k fails: the statements are not in a
\* transaction, so the rows statement 1 has deleted stay deleted
RepositoryDeleteFailing(d, u, k) ==
    IF k = 1 THEN d
    ELSE [d EXCEPT !.social_accounts = [@ EXCEPT ![u.ID] = <<>>]]

PersistFailing(d, u, e, k) ==
    IF e.name = UserDeleted THEN RepositoryDeleteFailing(d, u, k)
    ELSE StoreFailing(d, u, k)

\* a handler applied to e when statement k of its repository write fails
EventEndpointFailing(d, e, k) ==
    IF e.name = UserRegistered
    THEN [db |-> StoreFailing(d, e.User, k), err |-> ErrDatabase, arg |-> e.User]
    ELSE LET f == Find(d, e.UserID)
         IN  IF f.err # Nil THEN [db |-> d, err |-> f.err, arg |-> NoUser]
             ELSE LET u == Mutate(f.user, e)
                  IN  [db |-> PersistFailing(d, u, e, k), err |-> ErrDatabase,
                       arg |-> u]

\* a handler of loggingMiddleware: it calls the next handler, logs its error
\* and returns nil; r is the result of the next handler
LoggingMiddleware(r) == [r EXCEPT !.err = Nil] @@ [logged |-> r.err]

\* the error of the service's handler behind the result r of the wired one
HandlerError(r) == IF "logged" \in DOMAIN r THEN r.logged ELSE r.err

\* EventEndpoint over the service wrapped in the logging middleware, as main
\* wires it; the middleware has no wrapper for UserSocialAccountRemoved and
\* UserDeleted
LoggedEventEndpoint(d, e) ==
    CASE e.name = UserRegistered -> LoggingMiddleware(UserRegisteredHandler(d, e))
      [] e.name = UserActivated -> LoggingMiddleware(UserActivatedHandler(d, e))
      [] e.name = UserSocialAccountAdded ->
            LoggingMiddleware(UserSocialAccountAddedHandler(d, e))
      [] e.name = UserSocialAccountRemoved ->
            UserSocialAccountRemovedHandler(d, e)
      [] e.name = UserDeleted -> UserDeletedHandler(d, e)

ErrInvalidEvent == "invalid event"
ErrUnknownEvent == "unknown event"

\* the event name with the routing key suffix, "" if there is none
ParseEventName(suffix) ==
    IF \E n \in EventNames : TopicSuffix(n) = suffix
    THEN CHOOSE n \in EventNames : TopicSuffix(n) = suffix
    ELSE ""

\* json.Unmarshal of the payload into the event type of name: the type of
\* the decoded event is the one the topic names
Unmarshal(name, data) == [data EXCEPT !.name = name]

\* a message handler that does not look at the first segment of the topic
EventHandlerOfAnyStream(d, msg) ==
    IF Len(msg.topic) # 3
    THEN By("", [db |-> d, err |-> ErrInvalidEvent, arg |-> NoUser])
    ELSE IF ParseEventName(msg.topic[3]) \notin EventNames
    THEN By("", [db |-> d, err |-> ErrUnknownEvent, arg |-> NoUser])
    ELSE LoggedEventEndpoint(d, Unmarshal(ParseEventName(msg.topic[3]),
                                          msg.event))

\* the message handler of the users stream: it routes on the topic, decodes
\* the event and returns the error of the endpoint
EventHandler(d, msg) ==
    IF Len(msg.topic) # 3 \/ msg.topic[1] # "users"
    THEN By("", [db |-> d, err |-> ErrInvalidEvent, arg |-> NoUser])
    ELSE IF ParseEventName(msg.topic[3]) \notin EventNames
    THEN By("", [db |-> d, err |-> ErrUnknownEvent, arg |-> NoUser])
    ELSE LoggedEventEndpoint(d, Unmarshal(ParseEventName(msg.topic[3]),
                                          msg.event))

(***************************************************************************)
(* Use-cases (service.go)                                                  *)
(***************************************************************************)
ErrInvalidToken == "invalid token"
ErrEmailNotFound == "email not found"
ErrUserExists == "user exists"
ErrAccountBound == "account exists"

\* the e-mail addresses a caller registers with
Emails == 1..MaxNames

\* A use-case returns: the user it hands back (NoUser if none), its error,
\* the messages published, the events its aggregate had buffered when the
\* use-case returned, the number of times Notify was invoked, and the
\* aggregate as it was right after each event it emitted.
\* Return before any aggregate is touched:
Fail(err) ==
    [user |-> NoUser, err |-> err, published |-> <<>>, buffered |-> <<>>,
     notifies |-> 0, trace |-> <<>>]

\* return of the aggregate u with a deferred u.Notify() pending
DeferNotify(u, trace) ==
    [user |-> Notify(u), err |-> Nil, published |-> NotifyMessages(u),
     buffered |-> u.events, notifies |-> 1, trace |-> trace]

\* a Register that does not look the username up
ServiceRegisterUnchecked(found, username, email, id) ==
    DeferNotify(NewUser(id, username) @@ [Email |-> email], <<>>)

\* service.Register.  found is the result of FindByUsername(username), id
\* the ID NewUser mints.  The user is constructed and handed to the deferred
\* Notify; no method of the user is called in between.
ServiceRegister(found, username, email, id) ==
    IF found.err = Nil
    THEN Fail(ErrUserExists)
    ELSE DeferNotify(NewUser(id, username) @@ [Email |-> email], <<>>)

\* service.OTPVerify.  found is the result of FindByUsername(username).
OTPVerify(found) ==
    IF found.err # Nil THEN Fail(found.err)
    ELSE LET u == Activate(found.user)
         IN  DeferNotify(u, <<u>>)

\* what the verifier makes of a credential: whether it is valid, its subject,
\* the local part of its e-mail claim and whether the claims are present
Payloads ==
    [valid : BOOLEAN, claims : BOOLEAN, Subject : SocialIDs, Local : 1..MaxNames]

\* a sign-in that does not look the subject up
SignInAlwaysCreating(found, taken, provider, payload, id, suffix) ==
    IF ~payload.valid
    THEN Fail(ErrInvalidToken)
    ELSE LET username ==
                 IF taken.err = Nil THEN Username(payload.Local, suffix)
                 ELSE Username(payload.Local, 0)
             registered == Register(NewUser(id, username))
             activated == Activate(registered)
             linked == AddSocialAccount(activated, provider, payload.Subject).user
         IN  DeferNotify(linked, <<registered, activated, linked>>)

\* signInWithGoogle, signInWithLINE and signInWithPasskeys.  found is the
\* result of FindBySocialID(subject), taken the result of
\* FindByUsername(local part), id the ID NewUser mints, suffix the random
\* suffix of a taken username.  A passkey sign-in returns what the lookup
\* returns; only the Google sign-in requires the e-mail and name claims.
\* The result: the user returned, the error and the messages the deferred
\* Notify published.
SignIn(found, taken, provider, payload, id, suffix) ==
    IF ~payload.valid
    THEN Fail(ErrInvalidToken)
    ELSE IF found.err = Nil
    THEN [Fail(Nil) EXCEPT !.user = found.user]
    ELSE IF provider = PASSKEYS
    THEN Fail(found.err)
    ELSE IF provider = GOOGLE /\ ~payload.claims
    THEN Fail(ErrEmailNotFound)
    ELSE LET username ==
                 IF taken.err = Nil THEN Username(payload.Local, suffix)
                 ELSE Username(payload.Local, 0)
             registered == Register(NewUser(id, username))
             activated == Activate(registered)
             linked == AddSocialAccount(activated, provider, payload.Subject).user
         IN  DeferNotify(linked, <<registered, activated, linked>>)

\* DeleteUser as it would be without its deferred Notify
DeleteUserWithoutNotify(found) ==
    IF found.err # Nil THEN Fail(found.err)
    ELSE LET u == Delete(found.user)
         IN  [user |-> u, err |-> Nil, published |-> <<>>,
              buffered |-> u.events, notifies |-> 0, trace |-> <<u>>]

\* service.DeleteUser.  found is the result of FindByUsername(username).
\* The caller gets the error only; user is the aggregate the use-case held.
DeleteUser(found) ==
    IF found.err # Nil THEN Fail(found.err)
    ELSE LET u == Delete(found.user)
         IN  DeferNotify(u, <<u>>)

\* an AddSocialAccount that does not look the SocialID up
ServiceAddSocialAccountUnchecked(found, bound, provider, payload) ==
    IF found.err # Nil THEN Fail(found.err)
    ELSE IF ~payload.valid THEN Fail(ErrInvalidToken)
    ELSE LET u == AddSocialAccount(found.user, provider, payload.Subject).user
         IN  DeferNotify(u, <<u>>)

\* service.AddSocialAccount.  found is the result of
\* FindByUsername(username), bound the result of FindBySocialID(subject).
\* The error of u.AddSocialAccount is not looked at.
ServiceAddSocialAccount(found, bound, provider, payload) ==
    IF found.err # Nil THEN Fail(found.err)
    ELSE IF ~payload.valid THEN Fail(ErrInvalidToken)
    ELSE IF bound.err = Nil THEN Fail(ErrAccountBound)
    ELSE LET u == AddSocialAccount(found.user, provider, payload.Subject).user
         IN  DeferNotify(u, <<u>>)

(***************************************************************************)
(* State                                                                   *)
(***************************************************************************)
VARIABLES
    agg,              \* the aggregate instance the caller holds
    before,           \* history: agg before the most recent call on it
    calls,            \* history: the calls made on agg, oldest first
    bus,              \* the messages handed to the publish sink, oldest first
    users,            \* table users
    social_accounts,  \* table social_accounts
    applied,          \* history: the handler applications, oldest first
    work,             \* worker -> the handler application or callback it runs
    store             \* SpecLine: OAuth state -> the session the cache holds for it

vars == <<agg, before, calls, bus, users, social_accounts, applied, work, store>>

\* the instant of the next repository statement: later than the aggregate
\* calls, and later with every call and handler application recorded
Clock ==
    CallTime + 1 + Len(applied) + Len(calls)
        + Cardinality({w \in DOMAIN work : work[w].pc = "done"})

db == [users |-> users, social_accounts |-> social_accounts, now |-> Clock]

SetDB(d) ==
    /\ users' = d.users
    /\ social_accounts' = d.social_accounts

Workers == {1, 2}

Idle == [pc |-> "idle"]

(***************************************************************************)
(* The LINE login sessions (transport/http/line): the cache of sessions    *)
(* keyed by their OAuth state.  An entry is a session, NoSession for a     *)
(* state never issued, or RemovedSession for a state whose entry is gone.   *)
(***************************************************************************)
States == 1..MaxStates

SingIn == "signin"
LinkAccount == "link_account"

\* the op query parameter is any non-empty string
SessionOperations == {SingIn, LinkAccount, "other"}

NewSession(state, op) == [State |-> state, Op |-> op]

NoSession == [absent |-> TRUE]
RemovedSession == [removed |-> TRUE]

NoSessions == [s \in States |-> NoSession]

\* store.Get: the session and whether the cache holds one
Get(state) ==
    [session |-> store[state], ok |-> store[state] \notin {NoSession, RemovedSession}]

ErrInvalidState == "invalid state"

\* the repositories a run starts from: empty, or one registered and activated
\* user with no account or one account (UserRegistered, UserActivated and
\* UserSocialAccountAdded applied to the empty repository)
InitDBs ==
    {EmptyDB} \cup
    {Store(EmptyDB,
           [ID |-> 1, Username |-> UsernameOf(1), Status |-> Activated,
            Accounts |-> q, UpdatedAt |-> CallTime, DeletedAt |-> ZeroTime,
            events |-> <<>>]) :
        q \in {<<>>} \cup {<<NewSocialAccount(GOOGLE, s)>> : s \in SocialIDs}}

(***************************************************************************)
(* SpecAgg: the aggregate API on one freshly constructed user              *)
(***************************************************************************)
InitAgg ==
    /\ agg = NewUser(1, Username(1, 0))
    /\ before = NoUser
    /\ calls = <<>>
    /\ bus = <<>>
    /\ users = EmptyDB.users
    /\ social_accounts = EmptyDB.social_accounts
    /\ applied = <<>>
    /\ work = [w \in Workers |-> Idle]
    /\ store = NoSessions

Called(call, u) ==
    /\ Len(calls) < MaxCalls
    /\ before' = agg
    /\ agg' = u
    /\ calls' = Append(calls, call)

CallRegister ==
    /\ Called([op |-> "Register"], Register(agg))
    /\ UNCHANGED <<bus, users, social_accounts, applied, work, store>>

CallActivate ==
    /\ Called([op |-> "Activate"], Activate(agg))
    /\ UNCHANGED <<bus, users, social_accounts, applied, work, store>>

CallDelete ==
    /\ Called([op |-> "Delete"], Delete(agg))
    /\ UNCHANGED <<bus, users, social_accounts, applied, work, store>>

CallAddSocialAccount ==
    \E a \in Pairs :
        LET r == AddSocialAccount(agg, a.Provider, a.SocialID)
        IN  /\ Called([op |-> "AddSocialAccount", account |-> a, err |-> r.err],
                      r.user)
            /\ UNCHANGED <<bus, users, social_accounts, applied, work, store>>

CallRemoveSocialAccount ==
    \E a \in Pairs :
        LET r == RemoveSocialAccount(agg, a.Provider, a.SocialID)
        IN  /\ Called([op |-> "RemoveSocialAccount", account |-> a, err |-> r.err],
                      r.user)
            /\ UNCHANGED <<bus, users, social_accounts, applied, work, store>>

CallNotify ==
    /\ Called([op |-> "Notify"], Notify(agg))
    /\ bus' = bus \o NotifyMessages(agg)
    /\ UNCHANGED <<users, social_accounts, applied, work, store>>

\* a sign-in that creates a user hands the caller that user, on which it has
\* called Register, Activate, AddSocialAccount and Notify
SignInCalls(provider, subject) ==
    <<[op |-> "Register", by |-> "SignIn"],
      [op |-> "Activate", by |-> "SignIn"],
      [op |-> "AddSocialAccount", by |-> "SignIn",
       account |-> NewSocialAccount(provider, subject), err |-> Nil],
      [op |-> "Notify", by |-> "SignIn"]>>

CallSignIn ==
    /\ calls = <<>>
    /\ \E provider \in Providers, payload \in Payloads, suffix \in 1..MaxSuffix,
       id \in UserIDs \ ({agg.ID} \cup {i \in UserIDs : users[i] # NoRow}) :
        \E found \in FindBySocialID(db, payload.Subject),
           taken \in FindByUsername(db, Username(payload.Local, 0)) :
            LET r == SignIn(found, taken, provider, payload, id, suffix)
                created == r.err = Nil /\ found.err # Nil
            IN  /\ Len(SignInCalls(provider, payload.Subject)) <= MaxCalls
                /\ agg' = IF r.err = Nil THEN r.user ELSE agg
                /\ before' =
                     IF created
                     THEN [r.user EXCEPT !.events =
                             [i \in 1..Len(r.published) |-> r.published[i].event]]
                     ELSE NoUser
                /\ calls' =
                     IF created THEN SignInCalls(provider, payload.Subject)
                     ELSE calls
                /\ bus' = bus \o r.published
                /\ UNCHANGED <<users, social_accounts, applied, work, store>>

NextAgg ==
    \/ CallSignIn
    \/ CallRegister
    \/ CallActivate
    \/ CallDelete
    \/ CallAddSocialAccount
    \/ CallRemoveSocialAccount
    \/ CallNotify

SpecAgg == InitAgg /\ [][NextAgg]_vars

(***************************************************************************)
(* Spec: projection handlers applied to the repository, one application    *)
(* per step, for any event a service instance can publish (in any order,   *)
(* with redelivery)                                                        *)
(***************************************************************************)
\* Register() is called right after NewUser, so the snapshot has no accounts
RegisteredEvents ==
    {Register(NewUser(id, UsernameOf(id))).events[1] : id \in UserIDs}

ActivatedEvents ==
    {NewUserActivatedEvent([ID |-> id], Activated) : id \in UserIDs}

AddedEvents ==
    {NewUserSocialAccountAddedEvent([ID |-> id], a) : id \in UserIDs, a \in Pairs}

DeletedEvents == {NewUserDeletedEvent([ID |-> id]) : id \in UserIDs}

RemovedEvents ==
    {NewUserSocialAccountRemovedEvent([ID |-> id], a) : id \in UserIDs, a \in Pairs}

Init ==
    /\ agg = NoUser
    /\ before = NoUser
    /\ calls = <<>>
    /\ bus = <<>>
    /\ \E d \in InitDBs : users = d.users /\ social_accounts = d.social_accounts
    /\ applied = <<>>
    /\ work = [w \in Workers |-> Idle]
    /\ store = NoSessions

\* one application of the event endpoint to the repository
Apply(e) ==
    /\ Len(applied) < MaxApplied
    /\ \E r \in {EventHandler(db, [topic |-> Topic(e), event |-> e])} :
        /\ SetDB(r.db)
        /\ applied' = Append(applied,
                             [event |-> e, err |-> HandlerError(r),
                              arg |-> r.arg, ret |-> r.err,
                              handler |-> r.handler])
        /\ UNCHANGED <<agg, before, calls, bus, work, store>>

HandleUserRegistered == \E e \in RegisteredEvents : Apply(e)

HandleUserActivated == \E e \in ActivatedEvents : Apply(e)

HandleUserSocialAccountAdded == \E e \in AddedEvents : Apply(e)

HandleUserDeleted == \E e \in DeletedEvents : Apply(e)

Next ==
    \/ HandleUserRegistered
    \/ HandleUserActivated
    \/ HandleUserSocialAccountAdded
    \/ HandleUserDeleted

Spec == Init /\ [][Next]_vars

(***************************************************************************)
(* SpecUse: the Register and SignIn use-cases publish to the users stream, *)
(* and the messages of the stream are consumed, each user's in the order   *)
(* published, and applied to the repository                                *)
(***************************************************************************)
\* the IDs NewUser can still mint: not stored and not in a message in flight
Fresh ==
    {id \in UserIDs :
        /\ users[id] = NoRow
        /\ \A i \in 1..Len(bus) : bus[i].event.UserID # id}

\* recorded once in a behaviour, at any point of it: the call changes
\* neither the tables nor, having published nothing, the stream
UseRegister ==
    /\ calls = <<>>
    /\ \E username \in Usernames, email \in Emails, id \in Fresh :
        \E found \in FindByUsername(db, username) :
            LET r == ServiceRegister(found, username, email, id)
            IN  /\ calls' = <<[op |-> "service.Register", username |-> username,
                               email |-> email, user |-> r.user, err |-> r.err]>>
                /\ bus' = bus \o r.published
                /\ UNCHANGED <<agg, before, users, social_accounts, applied, work, store>>

UseSignIn ==
    \E provider \in Providers, payload \in Payloads, suffix \in 1..MaxSuffix,
       id \in Fresh :
        \E found \in FindBySocialID(db, payload.Subject),
           taken \in FindByUsername(db, Username(payload.Local, 0)) :
            LET r == SignIn(found, taken, provider, payload, id, suffix)
            IN  /\ bus' = bus \o r.published
                /\ UNCHANGED <<agg, before, calls, users, social_accounts,
                               applied, work, store>>

\* the consumer handles a message no earlier message of the same user waits
\* before
Deliver ==
    \E i \in 1..Len(bus) :
        /\ \A j \in 1..(i - 1) : bus[j].event.UserID # bus[i].event.UserID
        /\ SetDB(EventHandler(db, bus[i]).db)
        /\ bus' = SubSeq(bus, 1, i - 1) \o SubSeq(bus, i + 1, Len(bus))
        /\ UNCHANGED <<agg, before, calls, applied, work, store>>

NextUse ==
    \/ UseRegister
    \/ UseSignIn
    \/ Deliver

SpecUse == Init /\ [][NextUse]_vars

(***************************************************************************)
(* SpecCase: one call of a use-case on a repository, recorded in calls,    *)
(* and the messages it published consumed by the projection handlers       *)
(***************************************************************************)
\* the repository before the call: empty, or holding user 1, registered or
\* activated and signed in
CaseDBs ==
    InitDBs \cup {Store(EmptyDB, Notify(Register(NewUser(1, UsernameOf(1)))))}

InitCase ==
    /\ agg = NoUser
    /\ before = NoUser
    /\ calls = <<>>
    /\ bus = <<>>
    /\ \E d \in CaseDBs : users = d.users /\ social_accounts = d.social_accounts
    /\ applied = <<>>
    /\ work = [w \in Workers |-> Idle]
    /\ store = NoSessions

\* no use-case has been called yet
Ready == calls = <<>>

\* Returned as it would be if the use-case stored the user it returns
ReturnedAndStored(op, args, r) ==
    /\ calls' = <<[op |-> op, args |-> args, ret |-> r]>>
    /\ bus' = r.published
    /\ IF r.user = NoUser THEN UNCHANGED <<users, social_accounts>>
       ELSE SetDB(Store(db, r.user))
    /\ UNCHANGED <<agg, before, applied, work, store>>

\* the use-case op, called with args, has returned r
Returned(op, args, r) ==
    /\ calls' = <<[op |-> op, args |-> args, ret |-> r]>>
    /\ bus' = r.published
    /\ UNCHANGED <<agg, before, users, social_accounts, applied, work, store>>

CaseRegister ==
    /\ Ready
    /\ \E username \in Usernames, email \in Emails, id \in Fresh :
        \E found \in FindByUsername(db, username) :
            Returned("Register",
                     [username |-> username, email |-> email,
                      taken |-> found.err = Nil],
                     ServiceRegister(found, username, email, id))

CaseOTPVerify ==
    /\ Ready
    /\ \E username \in Usernames :
        \E found \in FindByUsername(db, username) :
            Returned("OTPVerify", [username |-> username, found |-> found],
                     OTPVerify(found))

CaseSignIn ==
    /\ Ready
    /\ \E provider \in SignInProviders, payload \in Payloads, suffix \in 1..MaxSuffix,
          id \in Fresh :
        \E found \in FindBySocialID(db, payload.Subject),
           taken \in FindByUsername(db, Username(payload.Local, 0)) :
            Returned("SignIn",
                     [provider |-> provider, payload |-> payload,
                      found |-> found.err = Nil],
                     SignIn(found, taken, provider, payload, id, suffix))

CaseAddSocialAccount ==
    /\ Ready
    /\ \E username \in Usernames, provider \in Providers, payload \in Payloads :
        \E found \in FindByUsername(db, username),
           bound \in FindBySocialID(db, payload.Subject) :
            Returned("AddSocialAccount",
                     [username |-> username, provider |-> provider,
                      payload |-> payload, found |-> found,
                      bound |-> bound.err = Nil],
                     ServiceAddSocialAccount(found, bound, provider, payload))

CaseDeleteUser ==
    /\ Ready
    /\ \E username \in Usernames :
        \E found \in FindByUsername(db, username) :
            Returned("DeleteUser", [username |-> username, found |-> found],
                     DeleteUser(found))

NextCase ==
    \/ CaseRegister
    \/ CaseOTPVerify
    \/ CaseSignIn
    \/ CaseAddSocialAccount
    \/ CaseDeleteUser
    \/ Deliver

SpecCase == InitCase /\ [][NextCase]_vars

(***************************************************************************)
(* SpecRoute: messages of all five event types, each on the topic of its   *)
(* event, handed to the message handler of the users stream                *)
(***************************************************************************)
Events ==
    RegisteredEvents \cup ActivatedEvents \cup AddedEvents \cup RemovedEvents
        \cup DeletedEvents

Route ==
    /\ Len(applied) < MaxRouted
    /\ \E e \in Events : Apply(e)

SpecRoute == Init /\ [][Route]_vars

(***************************************************************************)
(* SpecRemoved: the social account events of the users stream, added and   *)
(* removed, applied to the repository in any order and any number of times *)
(***************************************************************************)
\* an added event of a user the repository holds
HandleAddedOfStoredUser ==
    /\ Len(applied) < MaxApplied
    /\ \E e \in AddedEvents : Find(db, e.UserID).err = Nil /\ Apply(e)

\* a removed event of a user the repository holds
HandleRemovedOfStoredUser ==
    /\ Len(applied) < MaxApplied
    /\ \E e \in RemovedEvents : Find(db, e.UserID).err = Nil /\ Apply(e)

NextRemoved ==
    \/ HandleAddedOfStoredUser
    \/ HandleRemovedOfStoredUser

SpecRemoved == Init /\ [][NextRemoved]_vars

(***************************************************************************)
(* SpecFault: the projection handlers over a database whose statements can *)
(* fail                                                                    *)
(***************************************************************************)
ApplyFailing(e, k) ==
    LET r == EventEndpointFailing(db, e, k)
    IN  /\ Len(applied) < MaxApplied
        /\ SetDB(r.db)
        /\ applied' = Append(applied,
                             [event |-> e, err |-> r.err, arg |-> r.arg,
                              ret |-> IF e.name = UserDeleted THEN r.err ELSE Nil])
        /\ UNCHANGED <<agg, before, calls, bus, work, store>>

StoreFails ==
    \E e \in RegisteredEvents \cup ActivatedEvents \cup AddedEvents, k \in Statements :
        ApplyFailing(e, k)

DeleteFails == \E e \in DeletedEvents, k \in Statements : ApplyFailing(e, k)

NextFault ==
    \/ HandleUserRegistered
    \/ HandleUserActivated
    \/ HandleUserSocialAccountAdded
    \/ HandleUserDeleted
    \/ StoreFails
    \/ DeleteFails

SpecFault == Init /\ [][NextFault]_vars

(***************************************************************************)
(* SpecConc: two workers, each applying one projection handler.  A handler *)
(* that loads a user makes two database calls, Find and then Store or      *)
(* Delete, and the other worker can run between them.                      *)
(***************************************************************************)
InitConc ==
    /\ agg = NoUser
    /\ before = NoUser
    /\ calls = <<>>
    /\ bus = <<>>
    /\ \E d \in InitDBs : users = d.users /\ social_accounts = d.social_accounts
    /\ applied = <<>>
    /\ work = [w \in Workers |-> Idle]
    /\ store = NoSessions

\* UserRegisteredHandler is one database call
WorkerStoreSnapshot(w) ==
    \E e \in RegisteredEvents :
        /\ work[w].pc = "idle"
        /\ SetDB(UserRegisteredHandler(db, e).db)
        /\ work' = [work EXCEPT ![w] =
                      [pc |-> "done", event |-> e, err |-> Nil, user |-> e.User]]
        /\ UNCHANGED <<agg, before, calls, bus, applied, store>>

\* the Find of UserActivatedHandler, UserSocialAccountAddedHandler and
\* UserDeletedHandler
WorkerLoad(w) ==
    \E e \in ActivatedEvents \cup AddedEvents \cup DeletedEvents :
        LET f == Find(db, e.UserID)
        IN  /\ work[w].pc = "idle"
            /\ work' = [work EXCEPT ![w] =
                          [pc |-> IF f.err # Nil THEN "done" ELSE "loaded",
                           event |-> e, err |-> f.err, user |-> f.user]]
            /\ UNCHANGED <<agg, before, calls, bus, users, social_accounts, applied, store>>

\* the mutation in memory and the Store or Delete that ends the handler
WorkerPersist(w) ==
    /\ work[w].pc = "loaded"
    /\ SetDB(Persist(db, Mutate(work[w].user, work[w].event), work[w].event))
    /\ work' = [work EXCEPT ![w] = [@ EXCEPT !.pc = "done"]]
    /\ UNCHANGED <<agg, before, calls, bus, applied, store>>

NextConc ==
    \E w \in Workers :
        \/ WorkerStoreSnapshot(w)
        \/ WorkerLoad(w)
        \/ WorkerPersist(w)

SpecConc == InitConc /\ [][NextConc]_vars

(***************************************************************************)
(* SpecRepo: a caller that holds a user loaded from the repository, calls  *)
(* the aggregate API on it and stores it, as the repository test suite     *)
(* does.  The fixture (SetupTest) is one stored user with one account,     *)
(* next to at most one other stored user with one account.                 *)
(***************************************************************************)
Fixture(id, a) ==
    [ID |-> id, Username |-> UsernameOf(id), Status |-> Pending,
     Accounts |-> <<a>>, UpdatedAt |-> CallTime, DeletedAt |-> ZeroTime,
     events |-> <<>>]

FixtureDBs ==
    LET one == {Store(EmptyDB, Fixture(1, a)) : a \in Pairs}
    IN  one \cup {Store(d, Fixture(2, b)) : d \in one, b \in Pairs}

InitRepo ==
    /\ \E d \in FixtureDBs :
        /\ users = d.users
        /\ social_accounts = d.social_accounts
        /\ agg = Find(d, 1).user
    /\ before = NoUser
    /\ calls = <<>>
    /\ bus = <<>>
    /\ applied = <<>>
    /\ work = [w \in Workers |-> Idle]
    /\ store = NoSessions

CallStore ==
    /\ Called([op |-> "Store", err |-> Nil], agg)
    /\ SetDB(Store(db, agg))
    /\ UNCHANGED <<bus, applied, work, store>>

CallRepositoryDelete ==
    /\ Called([op |-> "RepositoryDelete", err |-> Nil], agg)
    /\ SetDB(RepositoryDelete(db, agg))
    /\ UNCHANGED <<bus, applied, work, store>>

\* the caller replaces the instance it holds by the stored user
CallFind ==
    LET f == Find(db, agg.ID)
    IN  /\ Called([op |-> "Find", err |-> f.err],
                  IF f.err = Nil THEN f.user ELSE agg)
        /\ UNCHANGED <<bus, users, social_accounts, applied, work, store>>

NextRepo ==
    \/ CallAddSocialAccount
    \/ CallRemoveSocialAccount
    \/ CallDelete
    \/ CallStore
    \/ CallRepositoryDelete
    \/ CallFind

SpecRepo == InitRepo /\ [][NextRepo]_vars

(***************************************************************************)
(* SpecLoad: one freshly constructed user, changed through its API, stored *)
(* with its pending events and loaded again                                *)
(***************************************************************************)
NextLoad ==
    \/ CallRegister
    \/ CallAddSocialAccount
    \/ CallStore
    \/ CallFind

SpecLoad == InitAgg /\ [][NextLoad]_vars

(***************************************************************************)
(* SpecTopic: one message, on the topic of its event or on a topic that is *)
(* not one of the users stream, handed to the message handler              *)
(***************************************************************************)
\* the topic of e and topics with a segment missing, a segment too many,
\* another first segment or a third segment that names no event
TopicsOf(e) ==
    {Topic(e),
     <<"users", e.UserID>>,
     <<"users", e.UserID, TopicSuffix(e.name), "v2">>,
     <<"accounts", e.UserID, TopicSuffix(e.name)>>,
     <<"users", e.UserID, "renamed">>}

Receive(msg) ==
    /\ applied = <<>>
    /\ \E r \in {EventHandler(db, msg)} :
        /\ SetDB(r.db)
        /\ applied' = <<[event |-> msg.event, topic |-> msg.topic,
                         err |-> HandlerError(r), arg |-> r.arg,
                         ret |-> r.err, handler |-> r.handler]>>
        /\ UNCHANGED <<agg, before, calls, bus, work, store>>

RouteTopic == \E e \in Events : \E topic \in TopicsOf(e) :
                  Receive([topic |-> topic, event |-> e])

SpecTopic == Init /\ [][RouteTopic]_vars

(***************************************************************************)
(* SpecDelete: the DeleteUser use-case, the consumer handling its message, *)
(* and earlier messages of the users stream delivered again (at-least-once *)
(* delivery).  The consumer keeps handling the messages in flight.         *)
(***************************************************************************)
\* a message of a stored user that the stream delivered before, again
Redeliver ==
    /\ calls # <<>>
    /\ bus = <<>>
    /\ \E e \in RegisteredEvents \cup ActivatedEvents \cup DeletedEvents :
        /\ users[e.UserID] # NoRow
        /\ Apply(e)

NextDelete ==
    \/ CaseDeleteUser
    \/ Deliver
    \/ Redeliver

SpecDelete == InitCase /\ [][NextDelete]_vars /\ WF_vars(Deliver)

(***************************************************************************)
(* SpecLine: the LINE login handler issuing OAuth states and two workers   *)
(* running the callback, whose lookup of the state (store.Get) and         *)
(* deferred removal of it (store.Delete) are separate steps                *)
(***************************************************************************)
\* LoginAuthURLHandler: a new session under a state not issued before
LoginAuthURLHandler ==
    \E state \in States, op \in SessionOperations :
        /\ store[state] = NoSession
        /\ store' = [store EXCEPT ![state] = NewSession(state, op)]
        /\ UNCHANGED <<agg, before, calls, bus, users, social_accounts, applied,
                       work>>

\* AuthCallback up to store.Get: an unknown state is rejected
AuthCallbackGet(w) ==
    /\ work[w] = Idle
    /\ Len(calls) < MaxCalls
    /\ \E state \in States :
        \E s \in {Get(state)} :
            /\ calls' = Append(calls,
                               [op |-> "AuthCallback", worker |-> w,
                                state |-> state,
                                err |-> IF s.ok THEN Nil ELSE ErrInvalidState])
            /\ work' = IF s.ok
                       THEN [work EXCEPT ![w] = [pc |-> "accepted",
                                                 session |-> s.session]]
                       ELSE work
    /\ UNCHANGED <<agg, before, bus, users, social_accounts, applied, store>>

\* the endpoint a session's operation names, or Nil
EndpointOf(op) ==
    CASE op = SingIn -> "signInEndpoint"
      [] op = LinkAccount -> "addSocialAccountEndpoint"
      [] OTHER -> Nil

\* AuthCallback after store.Get: the code is exchanged for a token (which
\* can fail), the endpoint of the session's operation is called, and the
\* deferred store.Delete runs
AuthCallbackFinish(w) ==
    /\ work[w].pc = "accepted"
    /\ \E exchanged \in BOOLEAN :
        \E session \in {work[w].session} :
            calls' = IF exchanged /\ EndpointOf(session.Op) # Nil
                     THEN Append(calls, [op |-> EndpointOf(session.Op),
                                         worker |-> w, state |-> session.State,
                                         err |-> Nil])
                     ELSE calls
    /\ store' = [store EXCEPT ![work[w].session.State] = RemovedSession]
    /\ work' = [work EXCEPT ![w] = Idle]
    /\ UNCHANGED <<agg, before, bus, users, social_accounts, applied>>

NextLine ==
    \/ LoginAuthURLHandler
    \/ \E w \in Workers : AuthCallbackGet(w)
    \/ \E w \in Workers : AuthCallbackFinish(w)

SpecLine == InitAgg /\ [][NextLine]_vars

(***************************************************************************)
(* Properties                                                              *)
(***************************************************************************)
IsPrefix(p, q) == Len(p) <= Len(q) /\ \A i \in 1..Len(p) : p[i] = q[i]

\* how often the pair a occurs in the account list q
Count(q, a) == Len(Filter(q, {a}))

\* the SocialIDs of the accounts of u
SocialIDsOf(u) == {u.Accounts[i].SocialID : i \in 1..Len(u.Accounts)}

\* C1: two concurrent applications of UserSocialAccountAddedHandler for the
\* same stored user, with different providers (and with different SocialIDs
\* that the user each one loaded did not hold, so that every account has its
\* own table key), both persist: once both have returned without error,
\* Find(id) returns a user holding both accounts
C1_ConcurrentAddsBothPersist ==
    \A w1, w2 \in Workers :
        ( /\ w1 # w2
          /\ work[w1].pc = "done" /\ work[w2].pc = "done"
          /\ work[w1].err = Nil /\ work[w2].err = Nil
          /\ work[w1].event.name = UserSocialAccountAdded
          /\ work[w2].event.name = UserSocialAccountAdded
          /\ work[w1].event.UserID = work[w2].event.UserID
          /\ work[w1].event.Account.Provider # work[w2].event.Account.Provider
          /\ work[w1].event.Account.SocialID # work[w2].event.Account.SocialID
          /\ work[w1].event.Account.SocialID \notin SocialIDsOf(work[w1].user)
          /\ work[w2].event.Account.SocialID \notin SocialIDsOf(work[w2].user) )
        => LET f == Find(db, work[w1].event.UserID)
           IN  /\ f.err = Nil
               /\ {work[w1].event.Account, work[w2].event.Account}
                     \subseteq Range(f.user.Accounts)

\* the handler applications so far are UserRegistered for a user, then
\* UserSocialAccountAdded for that user, then (from the third on) the same
\* UserSocialAccountAdded event again
ReplayScenario ==
    /\ Len(applied) >= 2
    /\ applied[1].event.name = UserRegistered
    /\ applied[2].event.name = UserSocialAccountAdded
    /\ applied[2].event.UserID = applied[1].event.UserID
    /\ \A i \in 3..Len(applied) : applied[i].event = applied[2].event

\* C2: after UserRegisteredHandler and then UserSocialAccountAddedHandler,
\* applied once or again with the same event, every application has succeeded
\* and Find returns the user with exactly the added account, once
C2_ReplayedAddKeepsOneAccount ==
    ReplayScenario =>
        LET f == Find(db, applied[1].event.UserID)
        IN  /\ \A i \in 1..Len(applied) : applied[i].err = Nil
            /\ f.err = Nil
            /\ f.user.Accounts = <<applied[2].event.Account>>

C2_Witness == ReplayScenario /\ Len(applied) = 3

\* C3: on a freshly constructed user the calls Register, Activate, N successful
\* AddSocialAccount and then Notify publish exactly N+2 messages, in call
\* order, on users.<UserID>.registered, .activated and .social_account_added
\* (each carrying the account of its call); the sign-in that creates a user
\* makes these calls with N = 1
SignUpCalls ==
    /\ Len(calls) >= 3
    /\ calls[1].op = "Register"
    /\ calls[2].op = "Activate"
    /\ Last(calls).op = "Notify"
    /\ \A i \in 3..(Len(calls) - 1) :
        calls[i].op = "AddSocialAccount" /\ calls[i].err = Nil

NotifyIsLast(q) == Len(q) > 0 /\ Last(q).op = "Notify"

RepeatedAdd(k) ==
    /\ calls[k].op = "AddSocialAccount"
    /\ calls[k - 1].op = "AddSocialAccount"
    /\ calls[k].account = calls[k - 1].account

\* C5: an AddSocialAccount that repeats the call before it, with the same
\* (provider, socialID), fails with "social account already exists" and leaves
\* Accounts as it was
C5_SecondAddFails ==
    \A k \in 2..Len(calls) :
        RepeatedAdd(k) =>
            /\ calls[k].err = ErrAccountExists
            /\ k = Len(calls) =>
                /\ Len(agg.Accounts) = Len(before.Accounts)
                /\ agg.Accounts = before.Accounts

C5_Witness ==
    /\ Len(calls) >= 2
    /\ RepeatedAdd(Len(calls))
    /\ calls[Len(calls) - 1].err = Nil
    /\ Last(calls).err = ErrAccountExists

\* C6: no user holds two accounts with the same (Provider, SocialID): not the
\* instance a caller holds, not a user a handler hands to Store or Delete,
\* not a user Find returns
C6_NoDuplicateAccounts ==
    /\ agg # NoUser => NoDuplicates(agg.Accounts)
    /\ \A i \in 1..Len(applied) :
        applied[i].arg # NoUser => NoDuplicates(applied[i].arg.Accounts)
    /\ \A id \in Visible(db) : NoDuplicates(Find(db, id).user.Accounts)

\* C7: when UserDeletedHandler has deleted a user, Find(id) fails with "user
\* not found", and so does FindBySocialID(s) for every SocialID s the user held
C7_DeletedUserIsNotFound ==
    ( /\ Len(applied) > 0
      /\ Last(applied).event.name = UserDeleted
      /\ Last(applied).err = Nil )
    => /\ Find(db, Last(applied).event.UserID) = NotFound
       /\ \A i \in 1..Len(Last(applied).arg.Accounts) :
            FindBySocialID(db, Last(applied).arg.Accounts[i].SocialID) = {NotFound}

\* C8: after Store(u) of a user u without duplicate (Provider, SocialID) pairs,
\* Find(u.ID) returns a user with u's Username and exactly u's set of pairs
C8_StoreThenFind ==
    ( /\ Len(applied) > 0
      /\ Last(applied).event.name # UserDeleted
      /\ Last(applied).err = Nil
      /\ NoDuplicates(Last(applied).arg.Accounts) )
    => LET u == Last(applied).arg
           f == Find(db, u.ID)
       IN  /\ f.err = Nil
           /\ f.user.Username = u.Username
           /\ Range(f.user.Accounts) = Range(u.Accounts)

\* the last four calls: a successful RemoveSocialAccount of a pair, Store,
\* AddSocialAccount of the same pair, Store
RemoveAndReAdd ==
    LET k == Len(calls) - 3
    IN  /\ k >= 1
        /\ calls[k].op = "RemoveSocialAccount"
        /\ calls[k].err = Nil
        /\ calls[k + 1].op = "Store"
        /\ calls[k + 2].op = "AddSocialAccount"
        /\ calls[k + 2].account = calls[k].account
        /\ calls[k + 3].op = "Store"

\* C9: after removing a pair, storing, re-adding the pair and storing, every
\* step has succeeded, the user holds the pair exactly once (in memory and as
\* stored) and FindBySocialID of its SocialID returns that user
C9_RemoveThenReAdd ==
    RemoveAndReAdd =>
        LET a == calls[Len(calls) - 1].account
            f == Find(db, agg.ID)
        IN  /\ \A i \in (Len(calls) - 3)..Len(calls) : calls[i].err = Nil
            /\ Count(agg.Accounts, a) = 1
            /\ f.err = Nil
            /\ Count(f.user.Accounts, a) = 1
            /\ FindBySocialID(db, a.SocialID) = {f}

\* C10: a Register or Activate call never moves Status from Activated to
\* Registered or Pending, nor from Registered to Pending
C10_StatusOneDirectional ==
    [][(calls' # calls /\ Last(calls').op \in {"Register", "Activate"})
          => /\ ~(agg.Status = Activated /\ agg'.Status \in {Registered, Pending})
             /\ ~(agg.Status = Registered /\ agg'.Status = Pending)]_vars

\* the aggregate methods that change the user
Mutators == {"Register", "Activate", "AddSocialAccount", "RemoveSocialAccount", "Delete"}

\* C11: once Status is Revoked, a call of Register, Activate, AddSocialAccount,
\* RemoveSocialAccount or Delete leaves Status Revoked
C11_RevokedIsTerminal ==
    [][(calls' # calls /\ Last(calls').op \in Mutators /\ agg.Status = Revoked)
          => agg'.Status = Revoked]_vars

\* the call succeeded: Register, Activate and Delete return nothing, the
\* account methods return a nil error
Succeeded(c) ==
    \/ c.op \in {"Register", "Activate", "Delete"}
    \/ c.op \in {"AddSocialAccount", "RemoveSocialAccount"} /\ c.err = Nil

\* the index of the most recent Notify in q, 0 if there is none
LastDrain(q) ==
    LET drains == {i \in 1..Len(q) : q[i].op = "Notify"}
    IN  IF drains = {} THEN 0 ELSE CHOOSE i \in drains : \A j \in drains : j <= i

\* C12: the number of pending events equals the number of successful calls of
\* Register, Activate, AddSocialAccount, RemoveSocialAccount and Delete since
\* the most recent Notify (each appends exactly one event, a failed
\* AddSocialAccount or RemoveSocialAccount none)
C12_OneEventPerSuccessfulCall ==
    Len(agg.events) =
        Cardinality({i \in (LastDrain(calls) + 1)..Len(calls) : Succeeded(calls[i])})

C12_Witness ==
    /\ Len(calls) = 4
    /\ calls[1].op = "AddSocialAccount" /\ calls[1].err = Nil
    /\ calls[2].op = "AddSocialAccount" /\ calls[2].err = ErrAccountExists
    /\ calls[3].op = "RemoveSocialAccount" /\ calls[3].err = Nil
    /\ calls[4].op = "RemoveSocialAccount" /\ calls[4].err = ErrAccountNotFound
    /\ Len(agg.events) = 2

\* C13: when the projection handler applied to an event fails, the message
\* handler returns that error to the consumer
C13_HandlerErrorIsReturned ==
    \A i \in 1..Len(applied) :
        applied[i].err # Nil => applied[i].ret = applied[i].err

\* C14: a projection handler that returns an error (the lookup failed, or a
\* statement of Store or Delete failed) leaves the users and social_accounts
\* tables exactly as they were before it was invoked
C14_FailedHandlerChangesNothing ==
    [][(applied' # applied /\ Last(applied').err # Nil)
          => users' = users /\ social_accounts' = social_accounts]_vars

\* the step applies event e through the event endpoint
Applies(e) == applied' # applied /\ Last(applied').event = e

\* C15: after UserRegisteredHandler the stored record of the event's UserID
\* is the event's user snapshot, whatever was stored before, and a second
\* application of the same event right after the first changes nothing
C15_RegisteredUpsertIsIdempotent ==
    [][\A e \in RegisteredEvents :
          Applies(e) =>
              /\ Last(applied').err = Nil
              /\ users'[e.UserID] = NewUserRow(e.User)
              /\ social_accounts'[e.UserID] = e.User.Accounts
              /\ (Len(applied) > 0 /\ Last(applied).event = e)
                    => users' = users /\ social_accounts' = social_accounts]_vars

\* C16: UserActivatedHandler of an event whose UserID is not stored returns
\* the not-found error and changes nothing; otherwise the stored user gets
\* the event's Status and the event's time as updatedAt, nothing else
\* changes, and a second application of the same event changes nothing
C16_ActivatedSetsStatusAndTime ==
    [][\A e \in ActivatedEvents :
          Applies(e) =>
              IF Find(db, e.UserID).err # Nil
              THEN /\ Last(applied').err = ErrUserNotFound
                   /\ users' = users /\ social_accounts' = social_accounts
              ELSE /\ Last(applied').err = Nil
                   /\ users' = [users EXCEPT ![e.UserID] =
                                   [@ EXCEPT !.Status = e.Status,
                                             !.UpdatedAt = e.OccuredAt]]
                   /\ social_accounts' = social_accounts
                   /\ (Len(applied) > 0 /\ Last(applied).event = e)
                         => users' = users]_vars

\* C17: UserSocialAccountRemovedHandler of a stored user returns no error
\* and leaves the stored accounts without the event's (Provider, SocialID)
\* and otherwise as they were; when that account is already absent (a second
\* delivery) the stored accounts do not change
C17_RemovedHandlerIsIdempotent ==
    [][( /\ applied' # applied
         /\ Last(applied').event.name = UserSocialAccountRemoved
         /\ Find(db, Last(applied').event.UserID).err = Nil )
       => LET e == Last(applied').event
          IN  /\ Last(applied').err = Nil
              /\ Range(social_accounts'[e.UserID]) =
                     Range(social_accounts[e.UserID]) \ {e.Account}
              /\ \A id \in UserIDs \ {e.UserID} :
                     social_accounts'[id] = social_accounts[id]
              /\ e.Account \notin Range(social_accounts[e.UserID])
                    => social_accounts' = social_accounts]_vars

\* an account is added to a stored user, removed, and the removal is
\* delivered once more
C17_Witness ==
    /\ Len(applied) = 3
    /\ applied[1].event.name = UserSocialAccountAdded
    /\ applied[2].event.name = UserSocialAccountRemoved
    /\ applied[2].event.UserID = applied[1].event.UserID
    /\ applied[2].event.Account = applied[1].event.Account
    /\ applied[3].event = applied[2].event
    /\ \A i \in 1..3 : applied[i].err = Nil
    /\ applied[1].event.Account \in Range(applied[1].arg.Accounts)
    /\ applied[1].event.Account \notin Range(social_accounts[applied[1].event.UserID])

\* C18: when a UserDeleted event that UserDeletedHandler has applied without
\* error is delivered again right away, the handler returns no error and
\* the users and social_accounts tables stay as they were
C18_DeletedHandlerIsIdempotent ==
    [][( /\ applied' # applied
         /\ Len(applied) > 0
         /\ Last(applied).event.name = UserDeleted
         /\ Last(applied).err = Nil
         /\ Last(applied').event = Last(applied).event )
       => /\ Last(applied').err = Nil
          /\ users' = users
          /\ social_accounts' = social_accounts]_vars

\* C19: no two stored users that are not deleted have the same Username
C19_UsernameUnique ==
    \A i, j \in Visible(db) : i # j => users[i].Username # users[j].Username

\* C20: a call of the Register use-case that succeeds returns a user with
\* the given username and e-mail and Status Registered, whose first pending
\* event is a UserRegistered event
C20_RegisterReturnsRegisteredUser ==
    \A i \in 1..Len(calls) :
        (calls[i].op = "service.Register" /\ calls[i].err = Nil) =>
            /\ calls[i].user.Username = calls[i].username
            /\ calls[i].user.Email = calls[i].email
            /\ calls[i].user.Status = Registered
            /\ Len(calls[i].user.events) > 0
            /\ calls[i].user.events[1].name = UserRegistered

\* the most recent use-case call is a call of op
UseCase(op) == calls # <<>> /\ calls[1].op = op

\* C21: OTPVerify with a username FindByUsername finds returns that user
\* with Status Activated and publishes exactly one message: a UserActivated
\* event of that user on the topic users.<UserID>.activated
C21_OTPVerifyActivatesAndPublishes ==
    (UseCase("OTPVerify") /\ calls[1].args.found.err = Nil) =>
        LET c == calls[1]
            id == c.args.found.user.ID
        IN  /\ c.ret.err = Nil
            /\ c.ret.user.ID = id
            /\ c.ret.user.Username = c.args.username
            /\ c.ret.user.Status = Activated
            /\ Len(c.ret.published) = 1
            /\ c.ret.published[1].topic = <<"users", id, "activated">>
            /\ c.ret.published[1].event.name = UserActivated
            /\ c.ret.published[1].event.UserID = id

C21_Witness ==
    /\ UseCase("OTPVerify")
    /\ calls[1].args.found.err = Nil
    /\ calls[1].args.found.user.Status = Registered
    /\ calls[1].ret.user.Status = Activated
    /\ Len(calls[1].ret.published) = 1

\* the handler of each event type
HandlerOf(name) ==
    CASE name = UserRegistered -> "UserRegisteredHandler"
      [] name = UserActivated -> "UserActivatedHandler"
      [] name = UserSocialAccountAdded -> "UserSocialAccountAddedHandler"
      [] name = UserSocialAccountRemoved -> "UserSocialAccountRemovedHandler"
      [] name = UserDeleted -> "UserDeletedHandler"

\* C22: the five event names have five different topic suffixes (registered,
\* activated, social_account_added, social_account_removed, deleted), the
\* name is recovered from the suffix, and a message published on the topic
\* of an event of type T is dispatched to the handler of T and to no other
C22_TopicsRouteToTheirHandler ==
    /\ {TopicSuffix(n) : n \in EventNames} =
          {"registered", "activated", "social_account_added",
           "social_account_removed", "deleted"}
    /\ \A n, m \in EventNames : TopicSuffix(n) = TopicSuffix(m) => n = m
    /\ \A n \in EventNames : ParseEventName(TopicSuffix(n)) = n
    /\ \A i \in 1..Len(applied) :
          applied[i].handler = HandlerOf(applied[i].event.name)

\* a removed and an added event have been routed, each to its handler
C22_Witness ==
    /\ Len(applied) = 2
    /\ applied[1].event.name = UserSocialAccountAdded
    /\ applied[1].handler = "UserSocialAccountAddedHandler"
    /\ applied[2].event.name = UserSocialAccountRemoved
    /\ applied[2].handler = "UserSocialAccountRemovedHandler"

\* C23: a step in which a use-case (Register, OTPVerify, SignIn,
\* AddSocialAccount, DeleteUser) is called and returns leaves the users and
\* social_accounts tables as they were; the tables change only in a step in
\* which a projection handler consumes a published message
C23_OnlyHandlersWriteTheRepository ==
    [][/\ calls' # calls => (users' = users /\ social_accounts' = social_accounts)
       /\ (users' # users \/ social_accounts' # social_accounts)
             => (calls' = calls /\ Len(bus') = Len(bus) - 1)]_vars

\* DeleteUser has returned without error and its event waits to be
\* consumed: the stored user is still there, with its accounts
C23_Witness ==
    /\ UseCase("DeleteUser")
    /\ calls[1].ret.err = Nil
    /\ Len(bus) = 1
    /\ Find(db, calls[1].ret.user.ID).err = Nil
    /\ Find(db, calls[1].ret.user.ID).user.Accounts # <<>>

\* the events of the messages published by the most recent use-case call
PublishedEvents ==
    [i \in 1..Len(calls[1].ret.published) |-> calls[1].ret.published[i].event]

\* every event the aggregate buffered during the call has been published
\* once, in emission order, and none is left in the buffer
FlushedOnce ==
    /\ PublishedEvents = calls[1].ret.buffered
    /\ calls[1].ret.user # NoUser => calls[1].ret.user.events = <<>>

\* the call returned on a path that constructed or changed an aggregate:
\* it did not fail, and it is not a sign-in that found the user
HeldAggregate ==
    /\ calls[1].ret.err = Nil
    /\ ~(calls[1].op = "SignIn" /\ calls[1].args.found)

\* C24 as stated: on every exit path of every use-case Notify is invoked
\* exactly once and every buffered event is published exactly once
C24_NotifyOnceOnEveryPath ==
    calls # <<>> => (calls[1].ret.notifies = 1 /\ FlushedOnce)

\* C24, amended: on every exit path of every use-case every buffered event
\* is published exactly once, in emission order, and none is left
\* unpublished; Notify is invoked exactly once on the paths that construct
\* or change an aggregate and not at all on the paths that return before
C24_BufferedEventsFlushedOnce ==
    calls # <<>> =>
        /\ FlushedOnce
        /\ calls[1].ret.notifies = IF HeldAggregate THEN 1 ELSE 0
        /\ ~HeldAggregate => calls[1].ret.buffered = <<>>

\* a sign-in that created a user has published its three events in order
C24_Witness ==
    /\ UseCase("SignIn")
    /\ HeldAggregate
    /\ calls[1].ret.notifies = 1
    /\ [i \in 1..Len(PublishedEvents) |-> PublishedEvents[i].name] =
          <<UserRegistered, UserActivated, UserSocialAccountAdded>>

\* C25: Delete on a user in any Status sets Status to Revoked, sets
\* UpdatedAt and DeletedAt to one and the same instant (the time of the
\* call), appends exactly one event, a UserDeleted event of the user, to the
\* pending events, and leaves Accounts as they were
C25_DeleteRevokesAndKeepsAccounts ==
    (calls # <<>> /\ Last(calls).op = "Delete") =>
        /\ agg.Status = Revoked
        /\ agg.UpdatedAt = agg.DeletedAt
        /\ agg.DeletedAt = CallTime
        /\ agg.events = Append(before.events, NewUserDeletedEvent(before))
        /\ agg.Accounts = before.Accounts
        /\ agg.ID = before.ID /\ agg.Username = before.Username

\* Delete of an activated user that holds an account
C25_Witness ==
    /\ calls # <<>>
    /\ Last(calls).op = "Delete"
    /\ before.Status = Activated
    /\ before.Accounts # <<>>
    /\ before.DeletedAt = ZeroTime
    /\ agg.Status = Revoked

(***************************************************************************)
(* C26  RemoveSocialAccount(provider, socialID) on a user that holds no    *)
(* account with that pair fails with the not-found error and leaves the    *)
(* Accounts, updatedAt and the pending events as they were; on a user that *)
(* holds the pair it succeeds, the remaining accounts are the other        *)
(* accounts in their order, and one UserSocialAccountRemoved event is      *)
(* appended per removed account.                                           *)
(***************************************************************************)
RemovedCall == calls # <<>> /\ Last(calls).op = "RemoveSocialAccount"

Others(accounts, a) == SelectSeq(accounts, LAMBDA x : x # a)

Matching(accounts, a) == SelectSeq(accounts, LAMBDA x : x = a)

C26_RemoveSocialAccountContract ==
    RemovedCall =>
        LET a == Last(calls).account
            gone == Matching(before.Accounts, a)
        IN  IF gone = <<>>
            THEN /\ Last(calls).err = ErrAccountNotFound
                 /\ agg = before
            ELSE /\ Last(calls).err = Nil
                 /\ agg.Accounts = Others(before.Accounts, a)
                 /\ Len(agg.events) = Len(before.events) + Len(gone)
                 /\ SubSeq(agg.events, 1, Len(before.events)) = before.events
                 /\ \A i \in 1..Len(gone) :
                        agg.events[Len(before.events) + i] =
                            NewUserSocialAccountRemovedEvent(before, gone[i])
                 /\ agg.ID = before.ID /\ agg.Status = before.Status

\* the second of two accounts is removed and the first is kept
C26_Witness ==
    /\ RemovedCall
    /\ Last(calls).err = Nil
    /\ Len(before.Accounts) = 2
    /\ before.Accounts[2] = Last(calls).account
    /\ agg.Accounts = <<before.Accounts[1]>>

\* a removal refused on a user that holds the same SocialID of another provider
C26_WitnessNotFound ==
    /\ RemovedCall
    /\ Last(calls).err = ErrAccountNotFound
    /\ \E x \in Range(before.Accounts) : x.SocialID = Last(calls).account.SocialID

(***************************************************************************)
(* C27  Replication.  A use-case has published the events of a user and    *)
(* the projection handlers have applied the first k of them, once each and *)
(* in publication order: the stored user (ID, Username, Status, set of     *)
(* accounts, deleted or not) equals the state the emitting aggregate had   *)
(* right after it emitted event k.                                         *)
(***************************************************************************)
\* the number of published messages the handlers have consumed
Delivered == Len(calls[1].ret.published) - Len(bus)

\* the replicated fields of an aggregate
AggregateState(u) ==
    [ID |-> u.ID, Username |-> u.Username, Status |-> u.Status,
     Accounts |-> Range(u.Accounts), Deleted |-> u.DeletedAt # ZeroTime]

\* the replicated fields as the tables hold them
StoredState(id) ==
    IF users[id] = NoRow THEN NoUser
    ELSE [ID |-> id, Username |-> users[id].Username,
          Status |-> users[id].Status,
          Accounts |-> Range(social_accounts[id]),
          Deleted |-> users[id].Deleted]

Replicated(k) ==
    LET u == calls[1].ret.trace[k]
    IN  StoredState(u.ID) = AggregateState(u)

C27_ReplicationAfterEveryPrefix ==
    (calls # <<>> /\ calls[1].ret.trace # <<>> /\ Delivered >= 1) =>
        Replicated(Delivered)

\* the same for the events other than UserDeleted
C27_ReplicationBeforeDeletion ==
    (calls # <<>> /\ calls[1].ret.trace # <<>> /\ Delivered >= 1
     /\ calls[1].op # "DeleteUser") =>
        Replicated(Delivered)

\* a UserDeleted event has been applied
C27_Witness ==
    /\ UseCase("DeleteUser")
    /\ calls[1].ret.err = Nil
    /\ Delivered = 1

(***************************************************************************)
(* C28  ListAll returns exactly the stored users that have not been        *)
(* deleted.  No user appears twice in a result; a user whose row a handler *)
(* has just stored appears in every result, a user a handler has just      *)
(* handed to the repository's Delete appears in none, and every other user *)
(* appears exactly if it appeared before the handler ran.  Before any      *)
(* handler has run, the users listed are the users the repository holds.   *)
(***************************************************************************)
Listed(l, id) == \E i \in DOMAIN l : l[i].ID = id

NoneTwice(l) == \A i, j \in DOMAIN l : l[i].ID = l[j].ID => i = j

C28_ListAllIsTheUsersNotDeleted ==
    [][LET h == Last(applied')
           wrote == h.err = Nil
       IN  /\ applied = <<>> =>
                \A l \in ListAll(db) :
                    NoneTwice(l) /\ \A id \in UserIDs :
                                       Listed(l, id) <=> users[id] # NoRow
           /\ \A l \in ListAll(db') :
                /\ NoneTwice(l)
                /\ \A id \in UserIDs :
                     Listed(l, id) <=>
                        IF wrote /\ h.arg.ID = id
                        THEN h.handler # "UserDeletedHandler"
                        ELSE \E l0 \in ListAll(db) : Listed(l0, id)]_vars

\* user 1 has been deleted and user 2 is the only user listed
C28_Witness ==
    /\ applied # <<>>
    /\ Last(applied).handler = "UserDeletedHandler"
    /\ Last(applied).err = Nil
    /\ Last(applied).arg.ID = 1
    /\ \A l \in ListAll(db) : Len(l) = 1 /\ l[1].ID = 2

(***************************************************************************)
(* C29  The Register use-case called with a username that FindByUsername   *)
(* finds fails with the "user exists" conflict, returns no user and        *)
(* publishes no event.                                                     *)
(***************************************************************************)
C29_RegisterOfTakenUsernameFails ==
    (UseCase("Register") /\ calls[1].args.taken) =>
        /\ calls[1].ret.err = ErrUserExists
        /\ calls[1].ret.user = NoUser
        /\ calls[1].ret.buffered = <<>>
        /\ calls[1].ret.published = <<>>
        /\ bus = <<>>

\* Register is called with the username of a user the repository holds
C29_Witness ==
    /\ UseCase("Register")
    /\ calls[1].args.taken
    /\ \E id \in Visible(db) : users[id].Username = calls[1].args.username
    /\ calls[1].ret.err = ErrUserExists

(***************************************************************************)
(* C30  The AddSocialAccount use-case, called for a stored username with a *)
(* credential that verifies, fails with the "account exists" conflict and  *)
(* publishes no event when a stored user holds an account with the         *)
(* credential's SocialID at the time of the call; whenever it publishes,   *)
(* it publishes one UserSocialAccountAdded event of that SocialID and no   *)
(* stored user held the SocialID at the time of the call.                  *)
(***************************************************************************)
\* a stored user holds an account with this SocialID
Bound(socialID) ==
    \E id \in UserIDs :
        /\ users[id] # NoRow /\ ~users[id].Deleted
        /\ \E a \in Range(social_accounts[id]) : a.SocialID = socialID

C30_AddOfBoundSocialIDFails ==
    [][(calls = <<>> /\ calls'[1].op = "AddSocialAccount") =>
          LET c == calls'[1]
              verified == c.args.found.err = Nil /\ c.args.payload.valid
          IN  /\ (verified /\ Bound(c.args.payload.Subject)) =>
                    /\ c.ret.err = ErrAccountBound
                    /\ c.ret.user = NoUser
                    /\ c.ret.published = <<>>
                    /\ bus' = <<>>
              /\ bus' # <<>> =>
                    /\ verified
                    /\ ~Bound(c.args.payload.Subject)
                    /\ Len(bus') = 1
                    /\ bus'[1].event =
                          NewUserSocialAccountAddedEvent(
                              c.args.found.user,
                              NewSocialAccount(c.args.provider,
                                               c.args.payload.Subject))]_vars

\* the credential's SocialID is the one the stored user already holds
C30_Witness ==
    /\ UseCase("AddSocialAccount")
    /\ calls[1].args.found.err = Nil
    /\ calls[1].args.payload.valid
    /\ calls[1].args.bound
    /\ calls[1].args.provider = LINE
    /\ calls[1].ret.err = ErrAccountBound
    /\ bus = <<>>

\* an account of a SocialID no stored user holds is added and published
C30_WitnessPublished ==
    /\ UseCase("AddSocialAccount")
    /\ ~calls[1].args.bound
    /\ calls[1].ret.err = Nil
    /\ Len(bus) = 1
    /\ bus[1].event.name = UserSocialAccountAdded

(***************************************************************************)
(* C31  Operations on different users are independent.  A projection       *)
(* handler applied to an event of user A leaves the users row and the      *)
(* account rows of every other user B as they were, and Find(B),           *)
(* FindByUsername of B's username and FindBySocialID of each of B's        *)
(* accounts give the same results after the handler as before it.          *)
(***************************************************************************)
RowsUnchanged(B) ==
    /\ users'[B] = users[B]
    /\ social_accounts'[B] = social_accounts[B]

LookupsUnchanged(B) ==
    /\ Find(db', B) = Find(db, B)
    /\ B \in Visible(db) =>
          /\ FindByUsername(db', users[B].Username) =
                FindByUsername(db, users[B].Username)
          /\ \A a \in Range(social_accounts[B]) :
                FindBySocialID(db', a.SocialID) = FindBySocialID(db, a.SocialID)

C31_OtherUsersUntouched ==
    [][\A B \in UserIDs \ {Last(applied').event.UserID} :
          RowsUnchanged(B) /\ LookupsUnchanged(B)]_vars

\* the rows alone
C31_OtherUsersRowsUntouched ==
    [][\A B \in UserIDs \ {Last(applied').event.UserID} : RowsUnchanged(B)]_vars

(***************************************************************************)
(* C32  Pending events are never persisted: every user that Find,          *)
(* FindByUsername, FindBySocialID or ListAll returns has an empty          *)
(* pending-event buffer, whatever events were pending on the instance      *)
(* that was handed to Store.                                               *)
(***************************************************************************)
\* every user a lookup of the repository can return
Returnable ==
    {Find(db, id) : id \in UserIDs}
        \cup UNION {FindByUsername(db, n) : n \in Usernames}
        \cup UNION {FindBySocialID(db, x) : x \in SocialIDs}
        \cup UNION {{[user |-> l[i], err |-> Nil] : i \in DOMAIN l} : l \in ListAll(db)}

C32_ReturnedUsersHaveNoPendingEvents ==
    /\ \A r \in Returnable : r.err = Nil => r.user.events = <<>>
    /\ (calls # <<>> /\ Last(calls).op = "Find" /\ Last(calls).err = Nil) =>
            agg.events = <<>>

\* an instance with pending events was stored and then loaded again
C32_Witness ==
    /\ Len(calls) >= 2
    /\ calls[Len(calls) - 1].op = "Store"
    /\ Last(calls).op = "Find" /\ Last(calls).err = Nil
    /\ before.events # <<>>
    /\ agg.events = <<>>
    /\ agg.Accounts = before.Accounts

(***************************************************************************)
(* C33  In every reachable state of the repository a SocialID is bound to  *)
(* at most one stored user that is not deleted, whatever the interleaving  *)
(* of the use-cases, which look the SocialID up before they create or link *)
(* a user, with the handlers that store the accounts.                      *)
(***************************************************************************)
\* the visible users holding an account with this SocialID
Holders(socialID) ==
    {id \in Visible(db) :
        \E a \in Range(social_accounts[id]) : a.SocialID = socialID}

C33_SocialIDBoundToOneUser ==
    \A x \in SocialIDs : Cardinality(Holders(x)) <= 1

(***************************************************************************)
(* C34  Handlers are safe to re-invoke.  When an event of a user that a    *)
(* handler has already applied is delivered again after a later event of   *)
(* that user has been applied, the stored user (its Username, Status,      *)
(* deletion mark and accounts) is left as it was.                          *)
(***************************************************************************)
\* e was applied before, and another event of its user after it
Redelivered(e) ==
    \E i, j \in DOMAIN applied :
        /\ i < j
        /\ applied[i].event = e /\ applied[i].err = Nil
        /\ applied[j].event # e /\ applied[j].event.UserID = e.UserID
        /\ applied[j].err = Nil

\* the user the tables us and accs hold, but for updated_at
StoredUser(us, accs, id) ==
    IF us[id] = NoRow THEN NoUser
    ELSE [ID |-> id, Username |-> us[id].Username,
          Status |-> us[id].Status, Deleted |-> us[id].Deleted,
          Accounts |-> accs[id]]

RedeliveryKeeps(e) ==
    StoredUser(users', social_accounts', e.UserID) =
        StoredUser(users, social_accounts, e.UserID)

C34_RedeliveryLeavesStoredUser ==
    [][\A e \in {Last(applied').event} :
          Redelivered(e) => RedeliveryKeeps(e)]_vars

(***************************************************************************)
(* C35  A deleted user stays deleted: once UserDeletedHandler has been     *)
(* applied for a user, no later or redelivered event of that user makes    *)
(* Find, FindByUsername or FindBySocialID return that user again.          *)
(***************************************************************************)
DeletedByHandler(id) ==
    \E i \in DOMAIN applied :
        /\ applied[i].handler = "UserDeletedHandler"
        /\ applied[i].err = Nil
        /\ applied[i].event.UserID = id

C35_DeletedUserStaysDeleted ==
    \A id \in UserIDs :
        DeletedByHandler(id) =>
            /\ Find(db, id).err # Nil
            /\ \A n \in Usernames :
                  \A r \in FindByUsername(db, n) : r.user.ID # id
            /\ \A x \in SocialIDs :
                  \A r \in FindBySocialID(db, x) : r.user.ID # id

(***************************************************************************)
(* C36  SignIn with provider P and verified subject S returns an existing  *)
(* user only if that user holds the account (P, S).                        *)
(***************************************************************************)
C36_SignInReturnsHolderOfThePair ==
    (UseCase("SignIn") /\ calls[1].ret.err = Nil /\ calls[1].args.found) =>
        NewSocialAccount(calls[1].args.provider, calls[1].args.payload.Subject)
            \in Range(calls[1].ret.user.Accounts)

(***************************************************************************)
(* C37  SignIn with a verified credential publishes nothing for a subject  *)
(* a stored user holds: it returns that stored user as it is stored, with  *)
(* no error, and leaves the repository as it was.  For a subject no stored *)
(* user holds it constructs one new user and publishes exactly the three   *)
(* events registered, activated, social_account_added.                     *)
(***************************************************************************)
SignInCall == calls = <<>> /\ calls'[1].op = "SignIn"

\* the call returned the stored holder of the subject and changed nothing
ReturnedStoredUser(c) ==
    /\ c.ret.err = Nil
    /\ c.ret.user.ID \in Holders(c.args.payload.Subject)
    /\ c.ret.user = Reconstitute(db, c.ret.user.ID)
    /\ c.ret.buffered = <<>>
    /\ bus' = <<>>
    /\ users' = users /\ social_accounts' = social_accounts

\* the call constructed a user and published its three events
CreatedUser(c) ==
    /\ c.ret.err = Nil
    /\ users[c.ret.user.ID] = NoRow
    /\ c.ret.user.Status = Activated
    /\ c.ret.user.Accounts =
          <<NewSocialAccount(c.args.provider, c.args.payload.Subject)>>
    /\ [i \in DOMAIN bus' |-> bus'[i].event.name] =
          <<UserRegistered, UserActivated, UserSocialAccountAdded>>
    /\ \A i \in DOMAIN bus' : bus'[i].event.UserID = c.ret.user.ID
    /\ users' = users /\ social_accounts' = social_accounts

\* the provider and the credential's claims allow a user to be constructed
CanCreate(c) ==
    \/ c.args.provider = LINE
    \/ c.args.provider = GOOGLE /\ c.args.payload.claims

\* as stated: every unknown subject gets a new user
C37_SignInPublishesIffUnknown ==
    [][SignInCall =>
          \A c \in {calls'[1]} :
              c.args.payload.valid =>
                  IF Bound(c.args.payload.Subject)
                  THEN ReturnedStoredUser(c)
                  ELSE CreatedUser(c)]_vars

\* an unknown subject gets a new user when the provider is Google or LINE
\* and a Google credential carries the e-mail and name claims; otherwise
\* the call fails and publishes nothing
C37_SignInPublishesOnlyIfUnknown ==
    [][SignInCall =>
          \A c \in {calls'[1]} :
              /\ bus' # <<>> =>
                    c.args.payload.valid /\ ~Bound(c.args.payload.Subject)
              /\ c.args.payload.valid =>
                    IF Bound(c.args.payload.Subject)
                    THEN ReturnedStoredUser(c)
                    ELSE IF CanCreate(c)
                    THEN CreatedUser(c)
                    ELSE /\ c.ret.err # Nil
                         /\ c.ret.user = NoUser
                         /\ bus' = <<>>
                         /\ users' = users /\ social_accounts' = social_accounts]_vars

\* a sign-in of an unknown subject has published its three events
C37_Witness ==
    /\ UseCase("SignIn")
    /\ ~calls[1].args.found
    /\ calls[1].ret.err = Nil
    /\ Len(bus) = 3

\* a passkey sign-in of an unknown subject
C37_WitnessPasskeys ==
    /\ UseCase("SignIn")
    /\ calls[1].args.provider = PASSKEYS
    /\ calls[1].args.payload.valid
    /\ ~calls[1].args.found
    /\ calls[1].ret.err = ErrUserNotFound

(***************************************************************************)
(* C38  Each OAuth state the LINE login handler issued is accepted by the  *)
(* callback at most once, also when two callbacks carrying the same state  *)
(* run concurrently.                                                       *)
(***************************************************************************)
Accepted(state) ==
    {i \in DOMAIN calls :
        /\ calls[i].op = "AuthCallback"
        /\ calls[i].state = state
        /\ calls[i].err = Nil}

C38_StateAcceptedAtMostOnce ==
    \A state \in States : Cardinality(Accepted(state)) <= 1

\* a callback whose state the cache does not hold is rejected with "invalid
\* state", and an endpoint is called only by a callback that was accepted
C38_UnknownStateRejected ==
    \A i \in DOMAIN calls :
        IF calls[i].op = "AuthCallback"
        THEN calls[i].err \in {Nil, ErrInvalidState}
        ELSE \E j \in 1..(i - 1) :
                /\ calls[j].op = "AuthCallback" /\ calls[j].err = Nil
                /\ calls[j].state = calls[i].state
                /\ calls[j].worker = calls[i].worker

\* a state is accepted at most once by callbacks that run one after another
C38_SequentialCallbacks ==
    [][(\A w \in Workers : work[w] = Idle) =>
          \A state \in States :
              (store[state] = RemovedSession /\ Accepted(state) # {}) =>
                  \A i \in DOMAIN calls' \ DOMAIN calls :
                      (calls'[i].op = "AuthCallback" /\ calls'[i].state = state)
                          => calls'[i].err = ErrInvalidState]_vars

(***************************************************************************)
(* C39  The message handler rejects with "invalid event" every message     *)
(* whose topic does not have exactly three segments with "users" first,    *)
(* and with "unknown event" every message whose third segment names none   *)
(* of the five events; in both cases no projection handler is invoked and  *)
(* the repository is left as it was.                                       *)
(***************************************************************************)
KnownSuffixes ==
    {"registered", "activated", "social_account_added",
     "social_account_removed", "deleted"}

Malformed(topic) == Len(topic) # 3 \/ topic[1] # "users"

\* the message was refused with err before any handler ran
Refused(h, err) ==
    /\ h.ret = err
    /\ h.handler = ""
    /\ users' = users
    /\ social_accounts' = social_accounts

C39_BadTopicsAreRejected ==
    [][\A h \in {Last(applied')} :
          IF Malformed(h.topic) THEN Refused(h, ErrInvalidEvent)
          ELSE IF h.topic[3] \notin KnownSuffixes THEN Refused(h, ErrUnknownEvent)
          ELSE h.handler # ""]_vars

\* a message of another stream was refused
C39_Witness ==
    /\ applied # <<>>
    /\ applied[1].topic[1] = "accounts"
    /\ applied[1].ret = ErrInvalidEvent
    /\ applied[1].handler = ""

\* a message whose third segment names no event was refused
C39_WitnessUnknown ==
    /\ applied # <<>>
    /\ applied[1].topic = <<"users", 1, "renamed">>
    /\ applied[1].ret = ErrUnknownEvent

(***************************************************************************)
(* C40  Deletion is eventually consistent.  After DeleteUser(username) has *)
(* succeeded, and with its UserDeleted message eventually handled,         *)
(* Find(id) and FindByUsername(username) eventually return not-found and   *)
(* from then on always return not-found.                                   *)
(***************************************************************************)
DeleteUserSucceeded == UseCase("DeleteUser") /\ calls[1].ret.err = Nil

\* neither lookup finds the user DeleteUser was called for
DeletedUserNotFound ==
    /\ DeleteUserSucceeded
    /\ Find(db, calls[1].ret.user.ID).err # Nil
    /\ \A r \in FindByUsername(db, calls[1].args.username) : r.err # Nil

C40_DeletionEventuallyAndForGood ==
    [](DeleteUserSucceeded => <>[]DeletedUserNotFound)

\* the lookups eventually return not-found: from the return of DeleteUser,
\* its message still in flight, the handling of the message leads there
C40_DeletionEventually ==
    (DeleteUserSucceeded /\ bus # <<>>) ~> DeletedUserNotFound

\* DeleteUser has succeeded and the user is still found
C40_WitnessStillFound ==
    /\ DeleteUserSucceeded
    /\ bus # <<>>
    /\ Find(db, calls[1].ret.user.ID).err = Nil

====
